---- MODULE Spec2Model ----
(***************************************************************************)
(* Model of AmneziaVpnService (client/android/.../AmneziaVpnService.kt):   *)
(* the connection state flow and its collector, the connect / disconnect / *)
(* reconnect requests handled on the main thread, the coroutines they      *)
(* launch on the IO dispatcher, the protocol cache, the disconnect and     *)
(* stop-service timers and the bind state of the service.                  *)
(*                                                                         *)
(* Main-thread handlers are single steps.  Coroutines of connectionScope   *)
(* run on Dispatchers.IO: every read or write of a shared field is a step  *)
(* of its own, so that handlers and coroutines interleave between them.    *)
(***************************************************************************)
EXTENDS Integers, Sequences, FiniteSets, TLC

\* ---------------------------------------------------------------- bounds
\* Number of coroutines connectionScope may launch in one run: of Spec and
\* ReqSpec, and of SeqSpec and JoinSpec.
MaxTasks == 2
MaxSeqTasks == 4
\* Number of pending kill timers that are told apart.
MaxKillTimers == 2
\* Saturation of the counter of state changes not yet seen by the collector.
MaxUnsent == 3
\* Number of coroutines in one run of ErrSpec.
MaxErrTasks == 3
\* Number of state values a run of OrdSpec records.
MaxLog == 4
MaxDestroyTasks == 3

\* ------------------------------------------------------------- constants
UNKNOWN == "Unknown"
CONNECTING == "Connecting"
CONNECTED == "Connected"
DISCONNECTING == "Disconnecting"
DISCONNECTED == "Disconnected"
RECONNECTING == "Reconnecting"

ProtocolState == {UNKNOWN, CONNECTING, CONNECTED, DISCONNECTING, DISCONNECTED, RECONNECTING}

\* The protocol names getProtocol constructs an instance for.
SupportedProtocols == {"wireguard", "awg", "openvpn", "cloak"}

\* Config strings handed to connect: blank, not JSON, JSON without a
\* "protocol" key, and JSON naming a protocol.
BLANK == "blank"
MALFORMED == "malformed"
NOPROTO == "noproto"

\* The configs of Spec; the malformed one and the ones naming a second and an
\* unsupported protocol are those of ReqSpec and ErrSpec.
Configs == {BLANK, NOPROTO, "wireguard"}

\* Reply destinations (msg.replyTo) and client names (MSG_CLIENT_NAME).
Channels == {"A", "B"}
ClientNames == {"activity", "watcher"}

NULL == "null"
NoJob == 0

\* The transitions of the connection state machine's table.
TransitionTable ==
    {<<UNKNOWN, CONNECTING>>, <<DISCONNECTED, CONNECTING>>,
     <<CONNECTING, CONNECTED>>,
     <<CONNECTING, DISCONNECTED>>, <<CONNECTED, DISCONNECTED>>, <<RECONNECTING, DISCONNECTED>>,
     <<CONNECTED, DISCONNECTING>>, <<CONNECTING, DISCONNECTING>>, <<RECONNECTING, DISCONNECTING>>,
     <<DISCONNECTING, DISCONNECTED>>,
     <<CONNECTED, RECONNECTING>>,
     <<RECONNECTING, CONNECTED>>}

VARIABLES
    protocolState,     \* protocolState.value
    collected,         \* the value the state collector emitted last
    collector,         \* "idle": suspended awaiting a change; "busy": resumed or suspended in its body
    collectorPending,  \* a change arrived while the collector was busy
    unsent,            \* state changes made since the collector emitted last
    skipped,           \* state changes the last collector run dropped without a broadcast
    trans,             \* the <<from, to>> state changes of the last step
    errs,              \* onError calls of the last step
    failure,           \* why the connect attempt of the last step failed, or "none"
    delivered,         \* the STATUS_CHANGED and STATUS events of the last step, with their receivers
    owed,              \* per state change the collector has not seen: the clients registered then
    missed,            \* the clients the last collector run left without the broadcast of a change
    logging,           \* the run records the state's values and the broadcasts
    stateLog,          \* the values protocolState took, while recorded
    sentLog,           \* the values STATUS_CHANGED carried, while recorded
    networkBound,      \* networkState's listener is bound
    timers,            \* pending timeouts, oldest first (all of the same length)
    stopCalls,         \* stopService calls so far
    stopOwed,          \* the state became DISCONNECTED with isServiceBound false and stopService has not run since
    isServiceBound,
    binding,           \* "never", "bound", "unbound": what the platform did last
    clientMessengers,  \* the registry: pairs <<reply destination, client name>>
    protocol,          \* the active protocol reference: a name or NULL
    protocolCache,     \* names with a cached instance
    initCount,         \* initialize calls per protocol name
    connectionJob,
    disconnectionJob,
    tasks,             \* the coroutines launched in connectionScope
    upPending,         \* a started protocol may still report CONNECTED
    downPending,       \* a stopped protocol may still report DISCONNECTED
    alive,             \* the process has not been killed
    teardown,          \* onDestroy: "no", "disconnect" (disconnect() called), "join" (joining), "done" (scopes cancelled)
    teardownJob,       \* the job onDestroy joins
    started,           \* the instances on which startVpn was invoked and neither threw nor was followed by stopVpn
    lastOp             \* the request handled by the last step

vars == <<protocolState, collected, collector, collectorPending, unsent, skipped, trans, errs, failure,
          delivered, owed, missed, logging, stateLog, sentLog,
          networkBound, timers, stopCalls, stopOwed, isServiceBound, binding, clientMessengers,
          protocol, protocolCache, initCount, connectionJob, disconnectionJob, tasks,
          upPending, downPending, alive, teardown, teardownJob, started, lastOp>>

\* The main thread runs handlers and main-scope coroutines until onDestroy
\* occupies it; the coroutines of connectionScope and the protocol run until
\* onDestroy has cancelled the scopes.
mainThread == alive /\ teardown = "no"
workers == alive /\ teardown # "done"

Min(a, b) == IF a < b THEN a ELSE b

\* ------------------------------------------------------ the state flow
\* The fields the state flow, its collector and stopService touch, as a
\* record, so that a handler's writes compose in program order.  trans, errs
\* failure and skipped describe one step: they start empty.
Flow ==
    [value |-> protocolState, collected |-> collected, collector |-> collector,
     pending |-> collectorPending, unsent |-> unsent, skipped |-> 0,
     trans |-> {}, errs |-> 0, failure |-> "none", networkBound |-> networkBound, timers |-> timers,
     stopCalls |-> stopCalls, stopOwed |-> stopOwed, isServiceBound |-> isServiceBound,
     clients |-> {e[1] : e \in clientMessengers}, delivered |-> <<>>,
     owed |-> owed, missed |-> {},
     logging |-> logging, stateLog |-> stateLog, sentLog |-> sentLog,
     teardown |-> teardown, teardownJob |-> teardownJob, started |-> started]

Commit(f) ==
    /\ protocolState' = f.value
    /\ collected' = f.collected
    /\ collector' = f.collector
    /\ collectorPending' = f.pending
    /\ unsent' = f.unsent
    /\ skipped' = f.skipped
    /\ trans' = f.trans
    /\ errs' = f.errs
    /\ failure' = f.failure
    /\ delivered' = f.delivered
    /\ owed' = f.owed
    /\ missed' = f.missed
    /\ logging' = f.logging
    /\ stateLog' = f.stateLog
    /\ sentLog' = f.sentLog
    /\ networkBound' = f.networkBound
    /\ timers' = f.timers
    /\ stopCalls' = f.stopCalls
    /\ stopOwed' = f.stopOwed
    /\ isServiceBound' = f.isServiceBound
    /\ teardown' = f.teardown
    /\ teardownJob' = f.teardownJob
    /\ started' = f.started

KillTimers(q) == Cardinality({k \in 1..Len(q) : q[k][1] = "kill"})

\* stopService: arm the kill timer, then stopSelf().
stopService(f) ==
    [f EXCEPT !.stopCalls = Min(@ + 1, MaxKillTimers + 1),
              !.stopOwed = FALSE,
              !.timers = IF KillTimers(@) < MaxKillTimers THEN Append(@, <<"kill", NoJob>>) ELSE @]

\* onError: one ERROR broadcast.
onError(f) == [f EXCEPT !.errs = @ + 1]

\* The clients an event sent through clientMessengers.send reaches: every
\* entry of the registry.
receivers(f) == f.clients

\* send with the state read from what the collector emitted before.
send_StaleState(f, event, state) ==
    [f EXCEPT !.delivered = Append(@, [event |-> event, state |-> f.collected, to |-> receivers(f)]),
              !.sentLog = IF f.logging /\ event = "STATUS_CHANGED" THEN Append(@, f.collected) ELSE @]

\* clientMessengers.send { event.packToMessage { putStatus(state) } }
send(f, event, state) ==
    [f EXCEPT !.delivered = Append(@, [event |-> event, state |-> state, to |-> receivers(f)]),
              !.sentLog = IF f.logging /\ event = "STATUS_CHANGED" THEN Append(@, state) ELSE @]

\* The clients, still registered, that were registered at one of the first n
\* state changes the collector has not seen.
Unserved(f, n) == f.clients \cap UNION {f.owed[k] : k \in 1..n}

\* The listener bound for CONNECTED and unbound for every other value.
networkListener_UnboundUnlessConnected(bound, w) == w = CONNECTED

\* The collector's when: bindNetworkListener for CONNECTED,
\* unbindNetworkListener for DISCONNECTED and DISCONNECTING, neither for
\* RECONNECTING, CONNECTING and UNKNOWN.
networkListener(bound, w) ==
    IF w = CONNECTED THEN TRUE
    ELSE IF w \in {DISCONNECTED, DISCONNECTING} THEN FALSE
    ELSE bound

\* The body of the collector of launchProtocolStateHandler for value w; susp
\* tells whether VpnStateStore.store suspends it.
CollectorBody(f, w, susp) ==
    LET g == [send(f, "STATUS_CHANGED", w)
                EXCEPT !.collected = w,
                       !.skipped = f.unsent - 1,
                       !.unsent = 0,
                       !.missed = Unserved(f, Len(f.owed) - 1),
                       !.owed = <<>>,
                       !.networkBound = networkListener(@, w),
                       !.collector = IF susp THEN "busy" ELSE "idle",
                       !.pending = FALSE]
    IN IF w = DISCONNECTED /\ ~f.isServiceBound THEN stopService(g) ELSE g

\* MutableStateFlow.value = w: equal values change nothing.
WriteValue(f, w) ==
    [f EXCEPT !.value = w,
              !.logging = @ /\ Len(f.stateLog) < MaxLog,
              !.stateLog = IF f.logging /\ Len(@) < MaxLog THEN Append(@, w) ELSE @,
              !.unsent = Min(@ + 1, MaxUnsent),
              !.owed = IF Len(@) < MaxUnsent THEN Append(@, f.clients) ELSE @,
              !.stopOwed = @ \/ (w = DISCONNECTED /\ ~f.isServiceBound),
              !.trans = @ \cup {<<f.value, w>>}]

\* protocolState.value = w on the main thread: Dispatchers.Main.immediate
\* resumes an idle collector in place.
SetMain(f, w, susp) ==
    IF f.value = w THEN f
    ELSE IF f.collector = "idle" THEN CollectorBody(WriteValue(f, w), w, susp)
    ELSE [WriteValue(f, w) EXCEPT !.pending = TRUE]

\* protocolState.value = w on another thread: the collector's resumption is
\* dispatched to the main thread.
SetIO(f, w) ==
    IF f.value = w THEN f
    ELSE [WriteValue(f, w) EXCEPT !.collector = "busy", !.pending = TRUE]

\* connectionExceptionHandler putting the state back to its initial value.
connectionExceptionHandler_ResetsState(f) == onError(SetIO(f, UNKNOWN))

\* connectionExceptionHandler, for the exceptions it reports.
connectionExceptionHandler(f) == onError(SetIO(f, DISCONNECTED))


\* ------------------------------------------------------------ coroutines
\* kind, pc, cfg (the config of a connect), jt (the job being joined) and inst
\* (the instance a call runs on) are the coroutine; the rest records its
\* history: after (the job of the other class that the request followed),
\* target (the active protocol when reconnect was requested), called (it made
\* its protocol call) and timedOut (its wait timed out with the state not
\* DISCONNECTED).
Task(kind, cfg, after, target) ==
    [kind |-> kind, pc |-> IF kind = "connect" THEN "c0" ELSE IF kind = "disconnect" THEN "d0" ELSE "r0",
     cfg |-> cfg, jt |-> NoJob, inst |-> NULL,
     after |-> after, target |-> target, called |-> FALSE, timedOut |-> FALSE]

TaskIds == 1..Len(tasks)

IsCompleted(j) == tasks[j].pc = "done"

\* A finished coroutine keeps nothing but its completion.
Finish(i) == [tasks EXCEPT ![i].pc = "done", ![i].cfg = NULL, ![i].jt = NoJob, ![i].inst = NULL]

\* The last coroutine launched, if it is of the given kind.
LastLaunched(kind) ==
    IF tasks # <<>> /\ tasks[Len(tasks)].kind = kind THEN Len(tasks) ELSE NoJob

\* The latest disconnect coroutine, if it has not completed.
PendingDisconnect ==
    LET ds == {j \in 1..Len(tasks) : tasks[j].kind = "disconnect" /\ tasks[j].pc # "done"}
    IN IF ds = {} THEN NoJob ELSE CHOOSE j \in ds : \A k \in ds : k <= j

Goto(i, pc) == [tasks EXCEPT ![i].pc = pc]

\* A protocol call is executing in coroutine i.
InCall(i) == tasks[i].pc \in {"c_start", "d_stop", "r_call"}

\* parseConfigToJson without its isBlank test: a blank string taken for JSON.
parseConfigToJson_NoBlankTest(vpnConfig) ==
    IF vpnConfig = MALFORMED THEN [errs |-> 1, json |-> FALSE]
    ELSE [errs |-> 0, json |-> TRUE]

\* parseConfigToJson: the number of onError calls and whether a JSON object results.
parseConfigToJson(vpnConfig) ==
    IF vpnConfig = BLANK THEN [errs |-> 0, json |-> FALSE]
    ELSE IF vpnConfig = MALFORMED THEN [errs |-> 1, json |-> FALSE]
    ELSE [errs |-> 0, json |-> TRUE]

\* The service once onCreate has run.
onCreate ==
    /\ protocolState = UNKNOWN
    /\ collected = UNKNOWN
    /\ collector = "idle"
    /\ collectorPending = FALSE
    /\ unsent = 0
    /\ skipped = 0
    /\ trans = {}
    /\ errs = 0
    /\ failure = "none"
    /\ delivered = <<>>
    /\ owed = <<>>
    /\ missed = {}
    /\ stateLog = <<>>
    /\ sentLog = <<>>
    /\ networkBound = FALSE
    /\ timers = <<>>
    /\ stopCalls = 0
    /\ stopOwed = FALSE
    /\ isServiceBound = FALSE
    /\ binding = "never"
    /\ clientMessengers = {}
    /\ protocol = NULL
    /\ protocolCache = {}
    /\ initCount = [n \in SupportedProtocols |-> 0]
    /\ connectionJob = NoJob
    /\ disconnectionJob = NoJob
    /\ tasks = <<>>
    /\ upPending = FALSE
    /\ downPending = FALSE
    /\ alive = TRUE
    /\ teardown = "no"
    /\ teardownJob = NoJob
    /\ started = {}
    /\ lastOp = "none"

Init == onCreate /\ logging = FALSE

\* The same service, with its state values and broadcasts recorded.
InitLog == onCreate /\ logging = TRUE

\* ------------------------------------------------- main-thread handlers
isConnected == protocolState = CONNECTED
isDisconnected == protocolState = DISCONNECTED
isUnknown == protocolState = UNKNOWN

\* The early returns of connectToVpn, disconnect and reconnect; before each,
\* the guard with one of its disjuncts forgotten.
connectRejected_OnlyConnected == isConnected
disconnectRejected_NotDisconnected == isUnknown \/ protocolState = DISCONNECTING

connectRejected == isConnected \/ protocolState = CONNECTING
disconnectRejected == isUnknown \/ isDisconnected \/ protocolState = DISCONNECTING
reconnectRejected == ~isConnected

\* connect / connectToVpn.  perm is the outcome of checkPermission.
connectToVpn(vpnConfig, perm, susp1, susp2) ==
    /\ mainThread
    /\ lastOp' = "connect"
    /\ UNCHANGED <<binding, clientMessengers, protocol, protocolCache, initCount,
                   disconnectionJob, upPending, downPending, alive>>
    /\ IF connectRejected
       THEN /\ Commit(Flow)
            /\ UNCHANGED <<connectionJob, tasks>>
       ELSE LET f1 == SetMain(Flow, CONNECTING, susp1)
                config == parseConfigToJson(vpnConfig)
                f2 == [f1 EXCEPT !.errs = @ + config.errs]
            IN IF ~config.json
               THEN /\ Commit([SetMain(onError(f2), DISCONNECTED, susp2)
                                EXCEPT !.failure = IF vpnConfig = BLANK THEN "blank" ELSE "malformed"])
                    /\ UNCHANGED <<connectionJob, tasks>>
               ELSE IF ~perm
               THEN /\ Commit([SetMain(f2, DISCONNECTED, susp2) EXCEPT !.failure = "permission"])
                    /\ UNCHANGED <<connectionJob, tasks>>
               ELSE /\ Commit(f2)
                    /\ tasks' = Append(tasks, Task("connect", vpnConfig, PendingDisconnect, NULL))
                    /\ connectionJob' = Len(tasks) + 1

disconnect(susp) ==
    /\ mainThread
    /\ lastOp' = "disconnect"
    /\ UNCHANGED <<binding, clientMessengers, protocol, protocolCache, initCount,
                   connectionJob, upPending, downPending, alive>>
    /\ IF disconnectRejected
       THEN /\ Commit(Flow)
            /\ UNCHANGED <<disconnectionJob, tasks>>
       ELSE /\ Commit(SetMain(Flow, DISCONNECTING, susp))
            /\ tasks' = Append(tasks, Task("disconnect", NULL, LastLaunched("connect"), NULL))
            /\ disconnectionJob' = Len(tasks) + 1

\* The callback networkState invokes on a connectivity change.
reconnect(susp) ==
    /\ mainThread
    /\ networkBound
    /\ lastOp' = "reconnect"
    /\ UNCHANGED <<binding, clientMessengers, protocol, protocolCache, initCount,
                   disconnectionJob, upPending, downPending, alive>>
    /\ IF reconnectRejected
       THEN /\ Commit(Flow)
            /\ UNCHANGED <<connectionJob, tasks>>
       ELSE /\ Commit(SetMain(Flow, RECONNECTING, susp))
            /\ tasks' = Append(tasks, Task("reconnect", NULL, NoJob, protocol))
            /\ connectionJob' = Len(tasks) + 1

\* One turn of the collector's loop once the main thread runs it.
CollectorRun(susp) ==
    /\ mainThread
    /\ collector = "busy"
    /\ lastOp' = "none"
    /\ UNCHANGED <<binding, clientMessengers, protocol, protocolCache, initCount,
                   connectionJob, disconnectionJob, tasks, upPending, downPending, alive>>
    /\ IF collectorPending /\ protocolState # collected
       THEN Commit(CollectorBody(Flow, protocolState, susp))
       ELSE Commit([Flow EXCEPT !.collector = "idle", !.pending = FALSE,
                                !.skipped = unsent, !.unsent = 0,
                                !.missed = Unserved(Flow, Len(owed)), !.owed = <<>>])


\* --------------------------------------------- coroutines of connectionScope
\* What a coroutine step leaves alone besides the fields it names.
IOFrame == UNCHANGED <<binding, clientMessengers, alive>>

\* disconnectionJob?.join(), the read: a completed or absent job does not suspend.
ConnJoin(i) ==
    /\ workers /\ tasks[i].pc = "c0"
    /\ tasks' = IF disconnectionJob = NoJob \/ IsCompleted(disconnectionJob)
                THEN Goto(i, "c1")
                ELSE [tasks EXCEPT ![i].pc = "c_wait", ![i].jt = disconnectionJob]
    /\ Commit(Flow) /\ lastOp' = "none" /\ IOFrame
    /\ UNCHANGED <<protocol, protocolCache, initCount, connectionJob, disconnectionJob,
                   upPending, downPending>>

\* connectionJob?.join(), the read.
DiscJoin(i) ==
    /\ workers /\ tasks[i].pc = "d0"
    /\ tasks' = IF connectionJob = NoJob \/ IsCompleted(connectionJob)
                THEN Goto(i, "d1")
                ELSE [tasks EXCEPT ![i].pc = "d_wait", ![i].jt = connectionJob]
    /\ Commit(Flow) /\ lastOp' = "none" /\ IOFrame
    /\ UNCHANGED <<protocol, protocolCache, initCount, connectionJob, disconnectionJob,
                   upPending, downPending>>

\* join() returns once the joined job has completed.
JoinReturn(i) ==
    /\ workers /\ tasks[i].pc \in {"c_wait", "d_wait"}
    /\ IsCompleted(tasks[i].jt)
    /\ tasks' = [tasks EXCEPT ![i].pc = IF tasks[i].pc = "c_wait" THEN "c1" ELSE "d1", ![i].jt = NoJob]
    /\ Commit(Flow) /\ lastOp' = "none" /\ IOFrame
    /\ UNCHANGED <<protocol, protocolCache, initCount, connectionJob, disconnectionJob,
                   upPending, downPending>>

\* disconnectionJob = null
ConnClearJob(i) ==
    /\ workers /\ tasks[i].pc = "c1"
    /\ disconnectionJob' = NoJob
    /\ tasks' = Goto(i, "c2")
    /\ Commit(Flow) /\ lastOp' = "none" /\ IOFrame
    /\ UNCHANGED <<protocol, protocolCache, initCount, connectionJob, upPending, downPending>>

\* connectionJob = null
DiscClearJob(i) ==
    /\ workers /\ tasks[i].pc = "d1"
    /\ connectionJob' = NoJob
    /\ tasks' = Goto(i, "d2")
    /\ Commit(Flow) /\ lastOp' = "none" /\ IOFrame
    /\ UNCHANGED <<protocol, protocolCache, initCount, disconnectionJob, upPending, downPending>>

\* protocol = getProtocol(config.getString("protocol")), up to the cache
\* lookup: a cached instance is returned and assigned, a supported name that
\* is not cached gets a new instance, a missing key and an unsupported name
\* throw into connectionExceptionHandler.  The coroutine runs in
\* connectionScope, on a worker thread.
getProtocol(i) ==
    /\ workers /\ tasks[i].pc = "c2"
    /\ lastOp' = "none" /\ IOFrame
    /\ UNCHANGED <<connectionJob, disconnectionJob, upPending, downPending>>
    /\ LET protocolName == tasks[i].cfg
       IN IF protocolName # NOPROTO /\ protocolName \in protocolCache
          THEN /\ protocol' = protocolName
               /\ tasks' = Goto(i, "c3")
               /\ Commit(Flow)
               /\ UNCHANGED <<protocolCache, initCount>>
          ELSE IF protocolName # NOPROTO /\ protocolName \in SupportedProtocols
          THEN /\ tasks' = Goto(i, "c_init")
               /\ Commit(Flow)
               /\ UNCHANGED <<protocol, protocolCache, initCount>>
          ELSE /\ Commit([connectionExceptionHandler(Flow)
                           EXCEPT !.failure = IF protocolName = NOPROTO THEN "noproto" ELSE "unsupported"])
               /\ protocol' = NULL
               /\ tasks' = Finish(i)
               /\ UNCHANGED <<protocolCache, initCount>>

\* The rest of getProtocol for a new instance: initialize it, store it in
\* the cache under its name, and assign it to protocol.
initialize(i) ==
    /\ workers /\ tasks[i].pc = "c_init"
    /\ lastOp' = "none" /\ IOFrame /\ Commit(Flow)
    /\ initCount' = [initCount EXCEPT ![tasks[i].cfg] = @ + 1]
    /\ protocolCache' = protocolCache \cup {tasks[i].cfg}
    /\ protocol' = tasks[i].cfg
    /\ tasks' = Goto(i, "c3")
    /\ UNCHANGED <<connectionJob, disconnectionJob, upPending, downPending>>

\* protocol?.startVpn(...), the call.
StartBegin(i) ==
    /\ workers /\ tasks[i].pc = "c3"
    /\ lastOp' = "none" /\ IOFrame
    /\ UNCHANGED <<protocol, protocolCache, initCount, connectionJob, disconnectionJob>>
    /\ IF protocol = NULL
       THEN /\ tasks' = Finish(i)
            /\ Commit(Flow)
            /\ UNCHANGED <<upPending, downPending>>
       ELSE /\ tasks' = [tasks EXCEPT ![i].pc = "c_start", ![i].inst = protocol, ![i].called = TRUE]
            /\ Commit([Flow EXCEPT !.started = @ \cup {protocol}])
            /\ upPending' = TRUE
            /\ downPending' = FALSE

\* startVpn returns, or throws into connectionExceptionHandler.
StartReturn(i, ok) ==
    /\ workers /\ tasks[i].pc = "c_start"
    /\ lastOp' = "none" /\ IOFrame
    /\ tasks' = Finish(i)
    /\ UNCHANGED <<protocolCache, initCount, connectionJob, disconnectionJob, downPending>>
    /\ IF ok
       THEN /\ Commit(Flow)
            /\ UNCHANGED <<protocol, upPending>>
       ELSE /\ Commit([connectionExceptionHandler(Flow) EXCEPT !.failure = "start",
                                                               !.started = @ \ {tasks[i].inst}])
            /\ protocol' = NULL
            /\ upPending' = FALSE

\* protocol?.stopVpn(), the call.
StopBegin(i) ==
    /\ workers /\ tasks[i].pc = "d2"
    /\ lastOp' = "none" /\ IOFrame
    /\ UNCHANGED <<protocol, protocolCache, initCount, connectionJob, disconnectionJob>>
    /\ IF protocol = NULL
       THEN /\ tasks' = Goto(i, "d3")
            /\ Commit(Flow)
            /\ UNCHANGED <<upPending, downPending>>
       ELSE /\ tasks' = [tasks EXCEPT ![i].pc = "d_stop", ![i].inst = protocol, ![i].called = TRUE]
            /\ Commit([Flow EXCEPT !.started = @ \ {protocol}])
            /\ upPending' = FALSE
            /\ downPending' = TRUE

StopReturn(i) ==
    /\ workers /\ tasks[i].pc = "d_stop"
    /\ tasks' = [tasks EXCEPT ![i].pc = "d3", ![i].inst = NULL]
    /\ lastOp' = "none" /\ IOFrame /\ Commit(Flow)
    /\ UNCHANGED <<protocol, protocolCache, initCount, connectionJob, disconnectionJob,
                   upPending, downPending>>

\* protocol = null
DiscClearProtocol(i) ==
    /\ workers /\ tasks[i].pc = "d3"
    /\ protocol' = NULL
    /\ tasks' = Goto(i, "d4")
    /\ lastOp' = "none" /\ IOFrame /\ Commit(Flow)
    /\ UNCHANGED <<protocolCache, initCount, connectionJob, disconnectionJob, upPending, downPending>>

\* withTimeout(DISCONNECT_TIMEOUT) { protocolState.first { it == DISCONNECTED } }:
\* the current value is tried first, then the timeout is pending.
AwaitDisconnected(i) ==
    /\ workers /\ tasks[i].pc = "d4"
    /\ lastOp' = "none" /\ IOFrame
    /\ UNCHANGED <<protocol, protocolCache, initCount, connectionJob, disconnectionJob,
                   upPending, downPending>>
    /\ IF protocolState = DISCONNECTED
       THEN /\ tasks' = Finish(i)
            /\ Commit(Flow)
       ELSE /\ tasks' = Goto(i, "d_waiting")
            /\ Commit([Flow EXCEPT !.timers = Append(@, <<"disc", i>>)])

Without(q, e) == SelectSeq(q, LAMBDA x : x # e)

\* The waiting coroutine sees the value DISCONNECTED.
SeeDisconnected(i) ==
    /\ workers /\ tasks[i].pc = "d_waiting"
    /\ protocolState = DISCONNECTED
    /\ tasks' = Finish(i)
    /\ Commit([Flow EXCEPT !.timers = Without(@, <<"disc", i>>)])
    /\ lastOp' = "none" /\ IOFrame
    /\ UNCHANGED <<protocol, protocolCache, initCount, connectionJob, disconnectionJob,
                   upPending, downPending>>

\* The timers that can fire: the kill timers are coroutines of mainScope and
\* wait for the main thread, which runBlocking holds during onDestroy.
Due == IF teardown = "no" THEN timers ELSE SelectSeq(timers, LAMBDA x : x[1] = "disc")

\* TimeoutCancellationException: stopService().
DisconnectTimeout(i) ==
    /\ workers /\ tasks[i].pc = "d_waiting"
    /\ Due # <<>> /\ Head(Due) = <<"disc", i>>
    /\ tasks' = [Finish(i) EXCEPT ![i].timedOut = (protocolState # DISCONNECTED)]
    /\ Commit(stopService([Flow EXCEPT !.timers = Without(@, <<"disc", i>>)]))
    /\ lastOp' = "none" /\ IOFrame
    /\ UNCHANGED <<protocol, protocolCache, initCount, connectionJob, disconnectionJob,
                   upPending, downPending>>

\* protocol?.reconnectVpn(Builder()), the call.
ReconnectBegin(i) ==
    /\ workers /\ tasks[i].pc = "r0"
    /\ lastOp' = "none" /\ IOFrame /\ Commit(Flow)
    /\ UNCHANGED <<protocol, protocolCache, initCount, connectionJob, disconnectionJob, downPending>>
    /\ IF protocol = NULL
       THEN /\ tasks' = Finish(i)
            /\ UNCHANGED upPending
       ELSE /\ tasks' = [tasks EXCEPT ![i].pc = "r_call", ![i].inst = protocol, ![i].called = TRUE]
            /\ upPending' = TRUE

ReconnectReturn(i) ==
    /\ workers /\ tasks[i].pc = "r_call"
    /\ tasks' = Finish(i)
    /\ lastOp' = "none" /\ IOFrame /\ Commit(Flow)
    /\ UNCHANGED <<protocol, protocolCache, initCount, connectionJob, disconnectionJob,
                   upPending, downPending>>

\* ------------------------------------------------------------ the protocol
\* A started or reconnected protocol reports CONNECTED.
ProtocolUp ==
    /\ workers /\ upPending
    /\ protocolState \in {CONNECTING, RECONNECTING}
    /\ upPending' = FALSE
    /\ Commit(SetIO(Flow, CONNECTED))
    /\ lastOp' = "none" /\ IOFrame
    /\ UNCHANGED <<protocol, protocolCache, initCount, connectionJob, disconnectionJob, tasks, downPending>>

\* A stopped protocol reports DISCONNECTED.
ProtocolDown ==
    /\ workers /\ downPending
    /\ downPending' = FALSE
    /\ Commit(SetIO(Flow, DISCONNECTED))
    /\ lastOp' = "none" /\ IOFrame
    /\ UNCHANGED <<protocol, protocolCache, initCount, connectionJob, disconnectionJob, tasks, upPending>>

\* ---------------------------------------------------------------- timers
\* delay(STOP_SERVICE_TIMEOUT) ends: Process.killProcess.
KillProcess ==
    /\ mainThread
    /\ timers # <<>> /\ Head(timers)[1] = "kill"
    /\ alive' = FALSE
    /\ Commit([Flow EXCEPT !.timers = Tail(@)])
    /\ lastOp' = "none"
    /\ UNCHANGED <<binding, clientMessengers, protocol, protocolCache, initCount,
                   connectionJob, disconnectionJob, tasks, upPending, downPending>>

\* --------------------------------------------------------------- teardown
\* onDestroy, up to the return of disconnect(): runBlocking holds the main
\* thread from here on.
onDestroy(susp) ==
    /\ mainThread
    /\ lastOp' = "destroy"
    /\ UNCHANGED <<binding, clientMessengers, protocol, protocolCache, initCount, connectionJob,
                   upPending, downPending, alive>>
    /\ IF disconnectRejected
       THEN /\ Commit([Flow EXCEPT !.teardown = "disconnect"])
            /\ UNCHANGED <<disconnectionJob, tasks>>
       ELSE /\ Commit([SetMain(Flow, DISCONNECTING, susp) EXCEPT !.teardown = "disconnect"])
            /\ tasks' = Append(tasks, Task("disconnect", NULL, LastLaunched("connect"), NULL))
            /\ disconnectionJob' = Len(tasks) + 1

\* disconnectionJob?.join(), the read of the handle.
onDestroyJoin ==
    /\ alive /\ teardown = "disconnect"
    /\ Commit([Flow EXCEPT !.teardown = "join", !.teardownJob = disconnectionJob])
    /\ lastOp' = "destroy"
    /\ UNCHANGED <<binding, clientMessengers, protocol, protocolCache, initCount, connectionJob,
                   disconnectionJob, tasks, upPending, downPending, alive>>

\* join() returns, or there was no job: connectionScope.cancel(),
\* mainScope.cancel().  Every coroutine and every timer is cancelled.
onDestroyCancel ==
    /\ alive /\ teardown = "join"
    /\ teardownJob # NoJob => IsCompleted(teardownJob)
    /\ Commit([Flow EXCEPT !.teardown = "done", !.teardownJob = NoJob, !.timers = <<>>])
    /\ lastOp' = "destroy"
    /\ UNCHANGED <<binding, clientMessengers, protocol, protocolCache, initCount, connectionJob,
                   disconnectionJob, tasks, upPending, downPending, alive>>

\* ------------------------------------------------------------ the binder
MainFrame == UNCHANGED <<protocol, protocolCache, initCount, connectionJob, disconnectionJob,
                         tasks, upPending, downPending, alive>>

onBind ==
    /\ mainThread /\ binding = "never"
    /\ binding' = "bound"
    /\ Commit([Flow EXCEPT !.isServiceBound = TRUE])
    /\ lastOp' = "none" /\ MainFrame /\ UNCHANGED clientMessengers

\* onUnbind without the test of the registry.
onUnbind_IgnoresRegistry ==
    /\ mainThread /\ binding = "bound"
    /\ binding' = "unbound"
    /\ LET f == [Flow EXCEPT !.isServiceBound = FALSE]
       IN Commit(IF isUnknown \/ isDisconnected THEN stopService(f) ELSE f)
    /\ lastOp' = "unbind" /\ MainFrame /\ UNCHANGED clientMessengers

onUnbind ==
    /\ mainThread /\ binding = "bound"
    /\ binding' = "unbound"
    /\ IF clientMessengers = {}
       THEN LET f == [Flow EXCEPT !.isServiceBound = FALSE]
            IN Commit(IF isUnknown \/ isDisconnected THEN stopService(f) ELSE f)
       ELSE Commit(Flow)
    /\ lastOp' = "unbind" /\ MainFrame /\ UNCHANGED clientMessengers

onRebind ==
    /\ mainThread /\ binding = "unbound"
    /\ binding' = "bound"
    /\ Commit([Flow EXCEPT !.isServiceBound = TRUE])
    /\ lastOp' = "none" /\ MainFrame /\ UNCHANGED clientMessengers

\* ------------------------------------------------- the client registry
\* clientMessengers[replyTo] = IpcMessenger(replyTo, clientName)
put(registry, replyTo, clientName) ==
    {e \in registry : e[1] # replyTo} \cup {<<replyTo, clientName>>}

\* clientMessengers.remove(replyTo)
remove(registry, replyTo) == {e \in registry : e[1] # replyTo}

\* Action.REGISTER_CLIENT
registerClient(replyTo, clientName) ==
    /\ mainThread
    /\ clientMessengers' = put(clientMessengers, replyTo, clientName)
    /\ Commit(Flow)
    /\ lastOp' = "register" /\ MainFrame /\ UNCHANGED binding

\* Action.UNREGISTER_CLIENT
unregisterClient(replyTo) ==
    /\ mainThread
    /\ clientMessengers' = remove(clientMessengers, replyTo)
    /\ Commit(Flow)
    /\ lastOp' = "unregister" /\ MainFrame /\ UNCHANGED binding

\* Action.REQUEST_STATUS: the reply goes through the registry's entry of replyTo.
\* The REQUEST_STATUS reply sent to whoever asks, in the registry or not.
statusReply_AnyRequester(f, replyTo) ==
    [f EXCEPT !.delivered = Append(@, [event |-> "STATUS", state |-> f.value, to |-> {replyTo}])]

statusReply(f, replyTo) ==
    IF replyTo \in f.clients
    THEN [f EXCEPT !.delivered = Append(@, [event |-> "STATUS", state |-> f.value, to |-> {replyTo}])]
    ELSE f

requestStatus(replyTo) ==
    /\ mainThread
    /\ Commit(statusReply(Flow, replyTo))
    /\ lastOp' = "status" /\ MainFrame /\ UNCHANGED <<binding, clientMessengers>>

\* ------------------------------------------------------ specifications
\* A handler's choice of whether VpnStateStore.store suspends the collector
\* matters only when the handler runs the collector.
Susp(relevant) == IF relevant THEN BOOLEAN ELSE {FALSE}

\* checkPermission is reached by configs that parse.
Perm(c) == IF parseConfigToJson(c).json THEN BOOLEAN ELSE {TRUE}

Coroutines ==
    \/ \E i \in TaskIds : ConnJoin(i)
    \/ \E i \in TaskIds : DiscJoin(i)
    \/ \E i \in TaskIds : JoinReturn(i)
    \/ \E i \in TaskIds : ConnClearJob(i)
    \/ \E i \in TaskIds : DiscClearJob(i)
    \/ \E i \in TaskIds : getProtocol(i)
    \/ \E i \in TaskIds : initialize(i)
    \/ \E i \in TaskIds : StartBegin(i)
    \/ \E i \in TaskIds : StopBegin(i)
    \/ \E i \in TaskIds : StopReturn(i)
    \/ \E i \in TaskIds : DiscClearProtocol(i)
    \/ \E i \in TaskIds : AwaitDisconnected(i)
    \/ \E i \in TaskIds : SeeDisconnected(i)
    \/ \E i \in TaskIds : DisconnectTimeout(i)

\* Every request, a collector that store may suspend, start failures and the
\* binder.
Next ==
    \/ \E c \in Configs : \E perm \in Perm(c) :
         \E s1 \in Susp(~connectRejected /\ collector = "idle") :
            \E s2 \in Susp(~connectRejected /\ collector = "idle" /\ ~s1
                            /\ (~parseConfigToJson(c).json \/ ~perm)) :
               connectToVpn(c, perm, s1, s2) /\ Len(tasks') <= MaxTasks
    \/ \E s \in Susp(~disconnectRejected /\ collector = "idle") :
         disconnect(s) /\ Len(tasks') <= MaxTasks
    \/ \E s \in Susp(~reconnectRejected /\ collector = "idle") :
         reconnect(s) /\ Len(tasks') <= MaxTasks
    \/ \E s \in Susp(collectorPending /\ protocolState # collected) : CollectorRun(s)
    \/ Coroutines
    \/ \E i \in TaskIds, ok \in BOOLEAN : StartReturn(i, ok)
    \/ \E i \in TaskIds : ReconnectBegin(i)
    \/ \E i \in TaskIds : ReconnectReturn(i)
    \/ ProtocolUp
    \/ ProtocolDown
    \/ KillProcess
    \/ onBind
    \/ onUnbind
    \/ onRebind

Spec == Init /\ [][Next]_vars

\* The sequencing of connect, disconnect and reconnect alone: one config that
\* parses and names a supported protocol, permission granted, a collector that
\* store does not suspend, no client ever bound.
NextSeq ==
    \/ connectToVpn("wireguard", TRUE, FALSE, FALSE) /\ Len(tasks') <= MaxSeqTasks
    \/ disconnect(FALSE) /\ Len(tasks') <= MaxSeqTasks
    \/ reconnect(FALSE) /\ Len(tasks') <= MaxSeqTasks
    \/ CollectorRun(FALSE)
    \/ Coroutines
    \/ \E i \in TaskIds : StartReturn(i, TRUE)
    \/ \E i \in TaskIds : ReconnectBegin(i)
    \/ \E i \in TaskIds : ReconnectReturn(i)
    \/ ProtocolUp
    \/ ProtocolDown
    \/ KillProcess

SeqSpec == Init /\ [][NextSeq]_vars

\* The requests with the configs that fail in each way and with permission
\* refused, the coroutines with starts that may fail, a collector that store
\* does not suspend, no client ever bound.
NextReq ==
    \/ \E c \in {BLANK, MALFORMED, "wireguard", "unknown"} : \E perm \in Perm(c) :
         connectToVpn(c, perm, FALSE, FALSE) /\ Len(tasks') <= MaxTasks
    \/ disconnect(FALSE) /\ Len(tasks') <= MaxTasks
    \/ reconnect(FALSE) /\ Len(tasks') <= MaxTasks
    \/ CollectorRun(FALSE)
    \/ Coroutines
    \/ \E i \in TaskIds, ok \in BOOLEAN : StartReturn(i, ok)
    \/ \E i \in TaskIds : ReconnectBegin(i)
    \/ \E i \in TaskIds : ReconnectReturn(i)
    \/ ProtocolUp
    \/ ProtocolDown
    \/ KillProcess

ReqSpec == Init /\ [][NextReq]_vars

\* The same without connectivity changes, and with starts that may fail.
NextJoin ==
    \/ connectToVpn("wireguard", TRUE, FALSE, FALSE) /\ Len(tasks') <= MaxSeqTasks
    \/ disconnect(FALSE) /\ Len(tasks') <= MaxSeqTasks
    \/ CollectorRun(FALSE)
    \/ Coroutines
    \/ \E i \in TaskIds, ok \in BOOLEAN : StartReturn(i, ok)
    \/ ProtocolUp
    \/ ProtocolDown
    \/ KillProcess

JoinSpec == Init /\ [][NextJoin]_vars

\* Connects that name a supported or an unsupported protocol, disconnects and
\* starts that may fail; a collector that store does not suspend.
NextErr ==
    \/ \E c \in {"wireguard", "awg", "unknown"} :
         connectToVpn(c, TRUE, FALSE, FALSE) /\ Len(tasks') <= MaxErrTasks
    \/ disconnect(FALSE) /\ Len(tasks') <= MaxErrTasks
    \/ CollectorRun(FALSE)
    \/ Coroutines
    \/ \E i \in TaskIds, ok \in BOOLEAN : StartReturn(i, ok)
    \/ ProtocolUp
    \/ ProtocolDown
    \/ KillProcess

ErrSpec == Init /\ [][NextErr]_vars

\* The registry and the broadcasts: clients that register, unregister and
\* request the status while connects and their coroutines run, with starts
\* that may fail; a collector that store does not suspend.
NextBus ==
    \/ \E replyTo \in Channels, clientName \in ClientNames : registerClient(replyTo, clientName)
    \/ \E replyTo \in Channels : unregisterClient(replyTo)
    \/ \E replyTo \in Channels : requestStatus(replyTo)
    \/ connectToVpn("wireguard", TRUE, FALSE, FALSE) /\ Len(tasks') <= MaxTasks
    \/ CollectorRun(FALSE)
    \/ \E i \in TaskIds : ConnJoin(i)
    \/ \E i \in TaskIds : ConnClearJob(i)
    \/ \E i \in TaskIds : getProtocol(i)
    \/ \E i \in TaskIds : initialize(i)
    \/ \E i \in TaskIds : StartBegin(i)
    \/ \E i \in TaskIds, ok \in BOOLEAN : StartReturn(i, ok)
    \/ ProtocolUp
    \/ KillProcess

BusSpec == Init /\ [][NextBus]_vars

\* The binder and the registry: a client that binds, registers, unregisters
\* and unbinds while connects, disconnects and their coroutines run; a
\* collector that store does not suspend.
NextBind ==
    \/ onBind
    \/ onUnbind
    \/ registerClient("A", "activity")
    \/ unregisterClient("A")
    \/ connectToVpn("wireguard", TRUE, FALSE, FALSE) /\ Len(tasks') <= MaxTasks
    \/ disconnect(FALSE) /\ Len(tasks') <= MaxTasks
    \/ CollectorRun(FALSE)
    \/ Coroutines
    \/ \E i \in TaskIds : StartReturn(i, TRUE)
    \/ ProtocolUp
    \/ ProtocolDown
    \/ KillProcess

BindSpec == Init /\ [][NextBind]_vars

\* Teardown: onDestroy arrives at any point of a run of connects and
\* disconnects, with coroutines at any step; starts may fail.
NextDestroy ==
    \/ connectToVpn("wireguard", TRUE, FALSE, FALSE) /\ Len(tasks') <= MaxDestroyTasks
    \/ disconnect(FALSE) /\ Len(tasks') <= MaxDestroyTasks
    \/ CollectorRun(FALSE)
    \/ Coroutines
    \/ \E i \in TaskIds : \E ok \in BOOLEAN : StartReturn(i, ok)
    \/ ProtocolUp
    \/ ProtocolDown
    \/ KillProcess
    \/ onDestroy(FALSE)
    \/ onDestroyJoin
    \/ onDestroyCancel

DestroySpec == Init /\ [][NextDestroy]_vars

\* The state handler at work: connects, disconnects, reconnects and their
\* coroutines with a collector that store may suspend; the run is recorded.
NextOrd ==
    \/ \E s1 \in Susp(~connectRejected /\ collector = "idle") :
         /\ connectToVpn("wireguard", TRUE, s1, FALSE)
         /\ Len(tasks') <= MaxTasks
    \/ \E s \in Susp(~disconnectRejected /\ collector = "idle") :
         disconnect(s) /\ Len(tasks') <= MaxTasks
    \/ \E s \in Susp(~reconnectRejected /\ collector = "idle") :
         reconnect(s) /\ Len(tasks') <= MaxTasks
    \/ \E s \in Susp(collectorPending /\ protocolState # collected) : CollectorRun(s)
    \/ Coroutines
    \/ \E i \in TaskIds, ok \in BOOLEAN : StartReturn(i, ok)
    \/ \E i \in TaskIds : ReconnectBegin(i)
    \/ \E i \in TaskIds : ReconnectReturn(i)
    \/ ProtocolUp
    \/ ProtocolDown
    \/ KillProcess

OrdSpec == InitLog /\ [][NextOrd]_vars


\* ------------------------------------------------------------------ claims
\* C1: every change of the connection state is a transition of the table; in
\* particular no connect moves the state from Disconnecting to Connecting.
C1_OnlyTableTransitions == trans \subseteq TransitionTable

\* C2: a disconnect issued right after an accepted connect, and followed by
\* no other accepted request, invokes the protocol's stop only after the
\* coroutine of that connect, and with it its start call, has finished.
C2_StopAfterStartReturned ==
    \A d \in TaskIds :
        (tasks[d].kind = "disconnect" /\ tasks[d].after # NoJob /\ tasks[d].called
            /\ d = Len(tasks))
            => IsCompleted(tasks[d].after)

\* The coroutines suspended in a join that cannot return: each waits for a
\* coroutine of the same set.
Waiting == {i \in TaskIds : tasks[i].pc \in {"c_wait", "d_wait"}}

RECURSIVE WaitingOnEachOther(_)
WaitingOnEachOther(S) ==
    LET T == {i \in S : tasks[i].jt \in S}
    IN IF T = S THEN S ELSE WaitingOnEachOther(T)

\* C3: no disconnect coroutine waits forever: none is ever suspended in a
\* join whose return depends on its own completion.
C3_DisconnectNeverStuck ==
    \A i \in WaitingOnEachOther(Waiting) : tasks[i].kind # "disconnect"

\* C4: at most one of the protocol calls start, stop and reconnect is
\* executing at any time.
C4_AtMostOneProtocolCall == Cardinality({i \in TaskIds : InCall(i)}) <= 1

\* C5: a connect accepted while a disconnect coroutine is pending invokes the
\* protocol's start only after that coroutine has completed.
C5_StartAfterPendingDisconnect ==
    \A c \in TaskIds :
        (tasks[c].kind = "connect" /\ tasks[c].after # NoJob /\ tasks[c].called)
            => IsCompleted(tasks[c].after)

\* C6: once a disconnect has timed out without the state being Disconnected,
\* stopService has been entered exactly once in the whole run and at most one
\* kill timer is armed.
C6_ForcedStopOnce ==
    (\E i \in TaskIds : tasks[i].timedOut) => (stopCalls = 1 /\ KillTimers(timers) <= 1)

\* C7: connect in state Connected or Connecting launches nothing, changes
\* neither the state, the active protocol, the cache nor the job handles, and
\* causes neither a STATUS_CHANGED nor an ERROR broadcast.
C7_ConnectNoOp ==
    [][(lastOp' = "connect" /\ protocolState \in {CONNECTED, CONNECTING})
        => /\ UNCHANGED <<protocolState, protocol, protocolCache, initCount, connectionJob,
                          disconnectionJob, tasks, collected, collector, collectorPending,
                          unsent, networkBound, timers, stopCalls, upPending, downPending>>
           /\ trans' = {} /\ errs' = 0]_vars

\* A connect was handled, and rejected, while a start call was executing.
C7_Witness ==
    /\ lastOp = "connect" /\ trans = {}
    /\ protocolState = CONNECTING
    /\ \E i \in TaskIds : tasks[i].kind = "connect" /\ tasks[i].pc = "c_start"

\* C8: disconnect in state Unknown, Disconnected or Disconnecting launches
\* nothing and changes neither the state, the active protocol nor the job
\* handles.
C8_DisconnectNoOp ==
    [][(lastOp' = "disconnect" /\ protocolState \in {UNKNOWN, DISCONNECTED, DISCONNECTING})
        => /\ UNCHANGED <<protocolState, protocol, protocolCache, initCount, connectionJob,
                          disconnectionJob, tasks, collected, collector, collectorPending,
                          unsent, networkBound, timers, stopCalls, upPending, downPending>>
           /\ trans' = {} /\ errs' = 0]_vars

\* A disconnect was handled, and rejected, while a disconnect coroutine ran.
C8_Witness ==
    /\ lastOp = "disconnect" /\ trans = {}
    /\ protocolState = DISCONNECTING
    /\ \E i \in TaskIds : tasks[i].kind = "disconnect" /\ tasks[i].pc # "done"

\* C9: a connectivity change handled in state Connected sets the state to
\* Reconnecting and launches one reconnect, whose call is made on the protocol
\* that was active at that moment, leaving cache and active protocol alone;
\* handled in any other state it changes nothing.
C9_ReconnectHandled ==
    lastOp' = "reconnect" =>
        IF protocolState = CONNECTED
        THEN /\ protocolState' = RECONNECTING
             /\ tasks' = Append(tasks, tasks'[Len(tasks')])
             /\ tasks'[Len(tasks')].kind = "reconnect"
             /\ UNCHANGED <<protocol, protocolCache, initCount>>
        ELSE UNCHANGED <<protocolState, protocol, protocolCache, initCount, connectionJob,
                         disconnectionJob, tasks, collected, upPending, downPending>>

C9_ReconnectCalled ==
    \A r \in TaskIds :
        tasks[r].kind = "reconnect" =>
            /\ InCall(r) => (tasks[r].target # NULL /\ tasks[r].inst = tasks[r].target)
            /\ IsCompleted(r) => tasks[r].called

\* C9, both halves: what the handler does, and the call its coroutine makes.
C9_ReconnectIffConnected == [][C9_ReconnectHandled]_vars /\ []C9_ReconnectCalled

\* C10: every change of the connection state is broadcast exactly once: a
\* run of the collector covers exactly one change, and an idle collector has
\* none left to broadcast.
C10_EveryChangeBroadcastOnce == skipped = 0 /\ (collector = "idle" => unsent = 0)

\* The failures of a connect attempt that are reported as errors: a blank and
\* a malformed config, a config without protocol name, an unsupported name,
\* and a start that throws one of the exceptions the handler reports.
ClassifiedFailures == {"blank", "malformed", "noproto", "unsupported", "start"}

\* C11: a step in which a connect attempt fails with a classified error makes
\* exactly one ERROR broadcast, and a step makes an ERROR broadcast only for
\* a classified failure.
C11_OneErrorPerFailure ==
    /\ failure \in ClassifiedFailures => errs = 1
    /\ failure \notin ClassifiedFailures => errs = 0

\* The coroutines of the connects whose config names an unsupported protocol.
UnsupportedConnects ==
    {i \in TaskIds : tasks[i].kind = "connect" /\ tasks[i].cfg \notin SupportedProtocols \cup {NOPROTO, NULL}}

\* The step in which such a coroutine ends reports one error, has made no
\* start call, caches nothing under the name, clears the active protocol
\* and sets the state to Disconnected.
C12_UnsupportedEnds ==
    \A i \in UnsupportedConnects :
        tasks'[i].pc = "done" =>
            /\ failure' = "unsupported" /\ errs' = 1
            /\ ~tasks'[i].called
            /\ tasks[i].cfg \notin protocolCache'
            /\ protocol' = NULL
            /\ protocolState' = DISCONNECTED

\* Such a coroutine, when no request was accepted after its connect, is never
\* suspended in a join that cannot return.
C12_UnsupportedNotStuck ==
    \A i \in UnsupportedConnects : i = Len(tasks) => i \notin WaitingOnEachOther(Waiting)

\* C12: a connect naming an unsupported protocol that no request follows
\* comes to its end, and ends
\* with a single ERROR broadcast, no start call, no cache entry for the name,
\* no active protocol and the state Disconnected.
C12_UnsupportedProtocol == [][C12_UnsupportedEnds]_vars /\ []C12_UnsupportedNotStuck

\* C13: a connect with a blank config that is not rejected launches no
\* coroutine, leaves the active protocol, the cache, the initialize counts and
\* the pending start alone, and leaves the state Disconnected.
C13_BlankConfig ==
    [][(/\ lastOp' = "connect" /\ ~connectRejected
        /\ \E perm \in Perm(BLANK) : connectToVpn(BLANK, perm, FALSE, FALSE))
        => /\ UNCHANGED <<tasks, connectionJob, disconnectionJob, protocol, protocolCache,
                          initCount, upPending, downPending>>
           /\ protocolState' = DISCONNECTED]_vars

\* A blank config was handed to connect after a protocol had been resolved.
C13_Witness ==
    /\ lastOp = "connect" /\ failure = "blank"
    /\ protocolState = DISCONNECTED
    /\ protocolCache # {}

RECURSIVE IsSubsequence(_, _)
IsSubsequence(a, b) ==
    IF a = <<>> THEN TRUE
    ELSE IF b = <<>> THEN FALSE
    ELSE IF Head(a) = Head(b) THEN IsSubsequence(Tail(a), Tail(b))
    ELSE IsSubsequence(a, Tail(b))

\* C14: the states the STATUS_CHANGED broadcasts carried, in the order they
\* were sent, are the values the connection state took, some left out, in
\* the order it took them.
C14_BroadcastsInOrder == IsSubsequence(sentLog, stateLog)

\* Three broadcasts were sent, and a value in between was left out.
C14_Witness ==
    /\ logging /\ collector = "idle"
    /\ Len(sentLog) >= 3
    /\ Len(stateLog) > Len(sentLog)

\* The reply destinations that have an entry in the registry.
Registered == {e[1] : e \in clientMessengers}

\* REGISTER_CLIENT leaves one entry for its reply destination, with the name
\* given, UNREGISTER_CLIENT leaves none, and both leave the other entries alone.
C15_Registry ==
    \A replyTo \in Channels :
        LET others == {e \in clientMessengers : e[1] # replyTo}
        IN /\ \A clientName \in ClientNames :
                registerClient(replyTo, clientName)
                    => clientMessengers' = others \cup {<<replyTo, clientName>>}
           /\ unregisterClient(replyTo) => clientMessengers' = others

\* No state change goes by without its broadcast to a client that is
\* registered from the change on, and every STATUS_CHANGED broadcast is delivered once to each registered destination and to no other.
C15_Delivered ==
    /\ missed = {}
    /\ \A k \in 1..Len(delivered) :
          delivered[k].event = "STATUS_CHANGED" => delivered[k].to = Registered

\* C15: with N registered clients every state change produces N delivered
\* STATUS_CHANGED events, one per registered client, and none for a
\* destination that is not registered.
C15_FanOut == [][C15_Registry]_vars /\ []C15_Delivered


\* The STATUS reply to one requester, carrying the state the handler reads.
C16_Reply(replyTo) == <<[event |-> "STATUS", state |-> protocolState, to |-> {replyTo}]>>

\* C16 as stated: every REQUEST_STATUS sends one STATUS reply to the
\* requesting channel only, carrying the current state, and changes neither
\* the state nor the registry.
C16_ReplyToEveryRequest ==
    [][\A replyTo \in Channels :
          (lastOp' = "status" /\ requestStatus(replyTo)) =>
              /\ delivered' = C16_Reply(replyTo)
              /\ UNCHANGED <<protocolState, clientMessengers>>]_vars

\* C16: a REQUEST_STATUS from a registered channel sends one STATUS reply to
\* that channel only, carrying the state at the moment the handler processes
\* the request; a REQUEST_STATUS from a channel that is not registered sends
\* nothing; the request changes neither the state nor the registry.
C16_ReplyToRegistered ==
    [][\A replyTo \in Channels :
          (lastOp' = "status" /\ requestStatus(replyTo)) =>
              /\ delivered' = IF replyTo \in Registered THEN C16_Reply(replyTo) ELSE <<>>
              /\ UNCHANGED <<protocolState, clientMessengers>>]_vars

\* A registered client asked while another client was registered too and a
\* connect was under way: it alone was answered, with Connecting.
C16_Witness ==
    /\ lastOp = "status"
    /\ Registered = Channels
    /\ protocolState = CONNECTING
    /\ Len(delivered) = 1
    /\ delivered[1].event = "STATUS" /\ delivered[1].state = CONNECTING
    /\ Cardinality(delivered[1].to) = 1


\* C17 as stated: once the state handler has processed a value, the network
\* observer is bound if and only if that value is Connected.
C17_BoundIffConnected == networkBound <=> collected = CONNECTED

\* C17: the state handler binds the network observer when it processes
\* Connected, unbinds it when it processes Disconnecting or Disconnected, and
\* leaves it as it was when it processes Reconnecting or Connecting; no other
\* step binds or unbinds it.
C17_ObserverFollowsHandler ==
    [][/\ collected' = collected => networkBound' = networkBound
       /\ collected' # collected =>
             networkBound' = CASE collected' = CONNECTED -> TRUE
                               [] collected' \in {DISCONNECTING, DISCONNECTED} -> FALSE
                               [] OTHER -> networkBound]_vars

\* The handler has processed Reconnecting and the observer is still bound.
C17_Witness ==
    /\ collected = RECONNECTING /\ collector = "idle"
    /\ protocolState = RECONNECTING
    /\ networkBound


\* Once the state handler has nothing left to process, a Disconnected the
\* state reached with no client bound has been followed by stopService, or a
\* shutdown initiated earlier is still under way.
C18_NoStopOwed == (alive /\ collector = "idle" /\ stopOwed) => KillTimers(timers) > 0

\* The state handler processing Disconnected: with no client bound it enters
\* stopService, which arms a kill timer; with a client bound it does neither.
C18_HandledDisconnected ==
    (collected' = DISCONNECTED /\ collected # DISCONNECTED) =>
        IF isServiceBound
        THEN timers' = timers /\ stopCalls' = stopCalls
        ELSE /\ stopCalls' = Min(stopCalls + 1, MaxKillTimers + 1)
             /\ KillTimers(timers') = Min(KillTimers(timers) + 1, MaxKillTimers)

\* The process is killed when a kill timer expires, and only then.
C18_KilledByTimer == (alive /\ ~alive') => (timers # <<>> /\ Head(timers)[1] = "kill")

\* C18: whenever the state reaches Disconnected while no client is bound,
\* shutdown is initiated (stopService: stopSelf and an armed kill timer, whose
\* expiry kills the process); reaching Disconnected while a client is bound
\* initiates no shutdown.
C18_ShutdownOnDisconnected ==
    /\ []C18_NoStopOwed
    /\ [][C18_HandledDisconnected /\ C18_KilledByTimer]_vars


\* The tasks of a class that have not completed.
Unfinished(class) == {i \in TaskIds : tasks[i].kind \in class /\ ~IsCompleted(i)}

\* At most one task of the class is unfinished, and the handle refers to it.
C19_OneInFlight(class, handle) ==
    /\ Cardinality(Unfinished(class)) <= 1
    /\ \A i \in Unfinished(class) : handle = i

\* C19: at most one connect-class task (connect or reconnect) and at most one
\* disconnect-class task is in flight at any time, and connectionJob and
\* disconnectionJob refer to the only unfinished task of their class.
C19_OneTaskPerClass ==
    /\ C19_OneInFlight({"connect", "reconnect"}, connectionJob)
    /\ C19_OneInFlight({"disconnect"}, disconnectionJob)


\* C20: the cache holds at most one instance per protocol name and never
\* replaces or removes one: a supported name is created and initialized once,
\* at its first resolution, and every later resolution returns that instance
\* without initializing again.
C20_OneInstancePerName ==
    /\ \A n \in SupportedProtocols : initCount[n] <= 1 /\ (n \in protocolCache <=> initCount[n] = 1)
    /\ protocolCache \subseteq SupportedProtocols


\* The job onDestroy joins completes: it is never one of a set of tasks
\* waiting for each other.
C21_JoinReturns ==
    (teardown = "join" /\ teardownJob # NoJob) => teardownJob \notin WaitingOnEachOther(Waiting)

\* Once the worker contexts are cancelled, every instance on which start was
\* invoked has had its stop invoked since (or its start threw).
C21_NothingLeftRunning == teardown = "done" => started = {}

\* C21: teardown terminates and leaves no started protocol instance without
\* its stop invoked.  onDestroy calls disconnect() and joins the disconnect
\* task before it cancels the worker contexts; the join returns, and once the
\* contexts are cancelled no instance that was started is left running,
\* whatever the state and the pending tasks were when teardown began.
C21_TeardownStopsProtocol == C21_JoinReturns /\ C21_NothingLeftRunning


\* C22: Unknown is the state only initially: no write of the state, by a
\* request handler, a coroutine, the exception handler or a report of the
\* protocol, gives it the value Unknown.
C22_NeverBackToUnknown ==
    /\ \A t \in trans : t[2] # UNKNOWN
    /\ protocolState = UNKNOWN => (tasks = <<>> /\ collected = UNKNOWN)

\* A connect started the protocol and completed, a disconnect stopped it and
\* the protocol has just reported Disconnected: the state left Unknown long
\* ago and was written by handlers, coroutines and the protocol.
C22_Witness ==
    /\ protocolState = DISCONNECTED
    /\ errs = 0 /\ trans = {<<DISCONNECTING, DISCONNECTED>>}
    /\ \E i, j \in TaskIds :
          /\ i < j
          /\ tasks[i].kind = "connect" /\ tasks[i].called /\ IsCompleted(i)
          /\ tasks[j].kind = "disconnect" /\ tasks[j].called


\* C23: an unbind of a client starts the stop-service escalation (stopSelf and
\* a kill timer) only when the registry is empty and the state is Unknown or
\* Disconnected; in Connecting, Connected, Reconnecting or Disconnecting, or
\* with a client still registered, it requests no stop and arms no timer.
C23_UnbindStopsOnlyIdle ==
    [][(lastOp' = "unbind" /\ onUnbind) =>
          \/ clientMessengers = {} /\ protocolState \in {UNKNOWN, DISCONNECTED}
          \/ stopCalls' = stopCalls /\ timers' = timers]_vars

\* The last client unbound while it was still registered and the state was
\* Disconnected: no stop was requested and no kill timer is armed.
C23_Witness ==
    /\ lastOp = "unbind"
    /\ clientMessengers # {}
    /\ protocolState = DISCONNECTED /\ collector = "idle"
    /\ isServiceBound
    /\ stopCalls = 0 /\ timers = <<>>

====
